---- MODULE Spec2Model ----
(***************************************************************************)
(* Model of aml_services/scoring/parallel_batchscore.py: the argument      *)
(* scan parse_args, the worker initialisation hook init and the per-batch  *)
(* scoring hook run, together with the process-wide variable model.        *)
(*                                                                         *)
(* Strings are sequences of characters so that str.strip() is computed,    *)
(* not assumed.  A flag token such as --model_name is a one-character      *)
(* string whose single character is the (non-whitespace) flag word.        *)
(* Python values that can be None are tagged records (PyStr, None, List,   *)
(* DataFrame, ndarray).                                                    *)
(***************************************************************************)
EXTENDS Integers, Sequences, FiniteSets, TLC

VARIABLES
    argv,            \* sys.argv of the worker process
    model,           \* the module-level variable `model`
    \* the remaining variables describe the last call of a function (None or
    \* empty where they do not apply to that function)
    passed,          \* the DataFrame the harness handed to run, as it was at the call
    mini_batch,      \* the same DataFrame object as it is after the call
    ret,             \* outcome of the call: which function, exception escaped, returned value
    calls,           \* the matrices model.predict was invoked on by run, in order
    get_model_calls, \* the keyword arguments of the get_model calls made by init
    collab,          \* how the registry and the artifact store behaved during init
    out              \* lines printed by the call

vars == <<argv, model, passed, mini_batch, ret, calls, get_model_calls, collab, out>>

----------------------------------------------------------------------------
(* Bounds *)

\* longest argument list (after the script name) explored for parse_args
MaxArgs == 6
\* longest argument list (after the script name) of a worker running the hooks
MaxHookArgs == 2
\* largest number of rows in a mini batch
MaxRows == 3

----------------------------------------------------------------------------
(* Python values *)

None == [py |-> "None"]
PyStr(s) == [py |-> "str", val |-> s]
PyList(items) == [py |-> "list", items |-> items]
DataFrame(columns, rows) == [py |-> "DataFrame", columns |-> columns, rows |-> rows]
NaN == "NaN"

\* outcome of evaluating a Python expression or call
Return(v) == [raised |-> "none", value |-> v]
Raise(e) == [raised |-> e, value |-> None]

----------------------------------------------------------------------------
(* Strings *)

Whitespace == {" ", "\t"}

RECURSIVE lstrip(_)
lstrip(s) ==
    IF Len(s) > 0 /\ s[1] \in Whitespace THEN lstrip(Tail(s)) ELSE s

RECURSIVE rstrip(_)
rstrip(s) ==
    IF Len(s) > 0 /\ s[Len(s)] \in Whitespace
    THEN rstrip(SubSeq(s, 1, Len(s) - 1))
    ELSE s

strip(s) == rstrip(lstrip(s))

FLAG_NAME == <<"--model_name">>
FLAG_VERSION == <<"--model_version">>
FLAG_TAG_NAME == <<"--model_tag_name">>
FLAG_TAG_VALUE == <<"--model_tag_value">>

Flags == {FLAG_NAME, FLAG_VERSION, FLAG_TAG_NAME, FLAG_TAG_VALUE}
OptionalFlags == {FLAG_VERSION, FLAG_TAG_NAME, FLAG_TAG_VALUE}

\* argument values: empty, whitespace only, and a name padded with whitespace
Values == {<< >>, <<" ">>, <<"\t", "m", " ">>}
Tokens == Flags \cup Values

ScriptName == <<"s","c","o","r","e",".","p","y">>

\* the sequences of at most n elements of S
SeqsUpTo(S, n) == UNION {[1..k -> S] : k \in 0..n}

\* sys.argv: the script name followed by up to n of the tokens T
ArgvSet(T, n) == {<<ScriptName>> \o a : a \in SeqsUpTo(T, n)}

\* the tokens of the argument vectors the hooks are run under
HookTokens == {FLAG_NAME, FLAG_VERSION, <<"\t", "m", " ">>}

----------------------------------------------------------------------------
(* parse_args *)

\* positions (1-based) of the occurrences of flag in av
Occurrences(av, flag) == {idx \in 1..Len(av) : av[idx] = flag}

HasFlag(av, flag) == Occurrences(av, flag) # {}

RECURSIVE Pairs(_, _, _)
\* the pairs (av[idx], av[idx + 1]) for the occurrences of flag at idx >= from, in order
Pairs(av, flag, from) ==
    IF from > Len(av) THEN << >>
    ELSE IF av[from] = flag
         THEN <<  <<av[from], av[from + 1]>>  >> \o Pairs(av, flag, from + 1)
         ELSE Pairs(av, flag, from + 1)

\* the list comprehension [(argv[idx], argv[idx + 1]) for idx, itm in
\* enumerate(argv) if itm == flag]: argv[idx + 1] raises IndexError when an
\* occurrence of flag is the last token
flag_param(av, flag) ==
    IF Len(av) \in Occurrences(av, flag)
    THEN Raise("IndexError")
    ELSE Return(Pairs(av, flag, 1))

\* list[0] of a Python list
first_item(lst) ==
    IF Len(lst) = 0 THEN Raise("IndexError") ELSE Return(lst[1])

model_name_stripped(model_name_param) == PyStr(strip(model_name_param[1][2]))

\* model_name = model_name_param[0][1]
model_name_of(model_name_param) == PyStr(model_name_param[1][2])

\* None if len(param) < 1 or len(param[0][1].strip()) == 0 else param[0][1]
optional_value(param) ==
    IF Len(param) < 1 \/ Len(strip(param[1][2])) = 0
    THEN None
    ELSE PyStr(param[1][2])

tag_value_by_own_value(model_tag_name_param, model_tag_value_param) ==
    IF Len(model_tag_value_param) < 1
    THEN Return(None)
    ELSE IF Len(strip(model_tag_value_param[1][2])) = 0
         THEN Return(None)
         ELSE Return(PyStr(model_tag_value_param[1][2]))

\* None if len(model_tag_value_param) < 1
\*      or len(model_tag_name_param[0][1].strip()) == 0
\*      else model_tag_value_param[0][1]
\* (the blank test reads model_tag_name_param[0], which raises IndexError
\* when --model_tag_name does not occur)
tag_value_of(model_tag_name_param, model_tag_value_param) ==
    IF Len(model_tag_value_param) < 1
    THEN Return(None)
    ELSE LET tag_name_first == first_item(model_tag_name_param)
         IN  IF tag_name_first.raised # "none"
             THEN Raise(tag_name_first.raised)
             ELSE IF Len(strip(tag_name_first.value[2])) = 0
                  THEN Return(None)
                  ELSE Return(PyStr(model_tag_value_param[1][2]))

missing_name_defaults(model_name_param) ==
    IF Len(model_name_param) = 0 THEN Return(None) ELSE Return(model_name_of(model_name_param))

\* if len(model_name_param) == 0: raise ValueError(...); model_name = ...
require_model_name(model_name_param) ==
    IF Len(model_name_param) = 0
    THEN Raise("ValueError")
    ELSE Return(model_name_of(model_name_param))

\* parse_args() over sys.argv = av: the statements in program order, the
\* first exception ending the call
parse_args(av) ==
    LET model_name_param == flag_param(av, FLAG_NAME)
        model_version_param == flag_param(av, FLAG_VERSION)
        model_tag_name_param == flag_param(av, FLAG_TAG_NAME)
        model_tag_value_param == flag_param(av, FLAG_TAG_VALUE)
    IN  IF model_name_param.raised # "none" THEN Raise(model_name_param.raised)
        ELSE LET model_name == require_model_name(model_name_param.value)
        IN  IF model_name.raised # "none" THEN Raise(model_name.raised)
        ELSE IF model_version_param.raised # "none" THEN Raise(model_version_param.raised)
        ELSE IF model_tag_name_param.raised # "none" THEN Raise(model_tag_name_param.raised)
        ELSE IF model_tag_value_param.raised # "none" THEN Raise(model_tag_value_param.raised)
        ELSE LET model_tag_value == tag_value_of(model_tag_name_param.value,
                                                 model_tag_value_param.value)
        IN  IF model_tag_value.raised # "none" THEN Raise(model_tag_value.raised)
        ELSE Return(PyList(<<model_name.value,
                             optional_value(model_version_param.value),
                             optional_value(model_tag_name_param.value),
                             model_tag_value.value>>))

----------------------------------------------------------------------------
(* Collaborators: the registry, the artifact store, the predictor *)

\* objects joblib.load can return: predictors over two features
Predictor(kind) == [py |-> "Predictor", kind |-> kind]
Predictors == {Predictor("sum"), Predictor("ratio")}

\* model.predict(x) for the 1-by-N matrix x: an array holding one
\* prediction, or an exception ("ratio" divides by the first feature)
predict(m, x) ==
    CASE m.kind = "sum"   -> Return(<<x[1][1] + x[1][2]>>)
      [] m.kind = "ratio" -> IF x[1][1] = 0
                             THEN Raise("ZeroDivisionError")
                             ELSE Return(<<x[1][2] \div x[1][1]>>)

\* what the collaborators do during one init call: get_model raises or
\* returns a registered model, Model.get_model_path raises or returns a path,
\* joblib.load raises or returns a predictor
Envs ==
    [get_model : {"LookupError", "found"},
     get_model_path : {"WebserviceException", "path"},
     load : {Raise("UnpicklingError")} \cup {Return(p) : p \in Predictors}]

----------------------------------------------------------------------------
(* init *)

\* the body of the try block of init with sys.argv = av, the collaborators
\* behaving as env: the exception that ends it ("none" when it runs to the
\* end), the object joblib.load returned, the get_model calls made and the
\* lines printed
init_try(av, env) ==
    LET model_filter == parse_args(av)
        started == << <<"Initializing batch scoring script...">> >>
        stopped(ex, lookups) ==
            [raised |-> ex, loaded |-> None, get_model_calls |-> lookups, out |-> started]
    IN  IF model_filter.raised # "none" THEN stopped(model_filter.raised, << >>)
        ELSE LET lookup == [model_name |-> model_filter.value.items[1],
                            model_version |-> model_filter.value.items[2],
                            tag_name |-> model_filter.value.items[3],
                            tag_value |-> model_filter.value.items[4]]
        IN  IF env.get_model # "found" THEN stopped(env.get_model, <<lookup>>)
        ELSE IF env.get_model_path # "path" THEN stopped(env.get_model_path, <<lookup>>)
        ELSE IF env.load.raised # "none" THEN stopped(env.load.raised, <<lookup>>)
        ELSE [raised |-> "none",
              loaded |-> env.load.value,
              get_model_calls |-> <<lookup>>,
              out |-> Append(started, <<"Loaded model", model_filter.value.items[1]>>)]

\* init with `except ValueError` in place of `except Exception`
init_catching_ValueError_only(av, m, env) ==
    LET body == init_try(av, env)
    IN  [model |-> IF body.raised = "none" THEN body.loaded ELSE m,
         ret |-> IF body.raised \in {"none", "ValueError"} THEN Return(None)
                                                            ELSE Raise(body.raised),
         get_model_calls |-> body.get_model_calls,
         out |-> IF body.raised = "ValueError"
                 THEN Append(body.out, <<"Error", body.raised>>)
                 ELSE body.out]

\* init re-raising the configuration error of parse_args
init_raising_ValueError(av, m, env) ==
    LET body == init_try(av, env)
    IN  [model |-> IF body.raised = "none" THEN body.loaded ELSE m,
         ret |-> IF body.raised = "ValueError" THEN Raise(body.raised) ELSE Return(None),
         get_model_calls |-> body.get_model_calls,
         out |-> IF body.raised \notin {"none", "ValueError"}
                 THEN Append(body.out, <<"Error", body.raised>>)
                 ELSE body.out]

\* init() with sys.argv = av and model = m, the collaborators behaving as
\* env: the new value of model, the outcome of the call, the get_model calls
\* made and the lines printed.  model is assigned by the last statement but
\* one of the try block; `except Exception` turns every exception of the
\* block into a printed line and the function returns None.
init(av, m, env) ==
    LET body == init_try(av, env)
    IN  [model |-> IF body.raised = "none" THEN body.loaded ELSE m,
         ret |-> Return(None),
         get_model_calls |-> body.get_model_calls,
         out |-> IF body.raised = "none"
                 THEN body.out
                 ELSE Append(body.out, <<"Error", body.raised>>)]

----------------------------------------------------------------------------
(* numpy and pandas operations used by run *)

ndarray(ndim, data) == [py |-> "ndarray", ndim |-> ndim, data |-> data]

\* np.array(pred) of the one-dimensional array pred
np_array(pred) == ndarray(1, pred)

\* np.atleast_2d: a one-dimensional array becomes a matrix of one row
atleast_2d(a) == IF a.ndim = 1 THEN ndarray(2, <<a.data>>) ELSE a

vstack_on_top(result, pred) ==
    ndarray(2, atleast_2d(np_array(pred)).data \o atleast_2d(result).data)

\* np.vstack((result, pred)): the rows of result followed by pred as a row
vstack(result, pred) ==
    ndarray(2, atleast_2d(result).data \o atleast_2d(np_array(pred)).data)

\* pd.DataFrame(result, columns=["score"]): one row per element of a
\* one-dimensional array, one row per row of a matrix; index 0..n-1
score_frame(result) ==
    IF result.ndim = 1
    THEN DataFrame(<<"score">>, [i \in 1..Len(result.data) |-> <<result.data[i]>>])
    ELSE DataFrame(<<"score">>, result.data)

\* left.join(right): a left join on the index.  Both frames carry the
\* default index 0..n-1, so the row at position i of left is extended by the
\* row at position i of right, or by NaN where right has no such row.
join(left, right) ==
    DataFrame(left.columns \o right.columns,
              [i \in 1..Len(left.rows) |->
                  left.rows[i] \o (IF i <= Len(right.rows)
                                   THEN right.rows[i]
                                   ELSE [c \in 1..Len(right.columns) |-> NaN])])

\* sample.values.reshape(1, -1): the row as a 1-by-N matrix
reshape_1(sample) == <<sample>>

----------------------------------------------------------------------------
(* run *)

RECURSIVE score_rows(_, _, _, _, _)
\* the for loop of run from row i on: result and the predict calls made so
\* far are carried along; the first exception ends the loop (model.predict
\* raises AttributeError when model is None)
score_rows(m, rows, i, result, called) ==
    IF i > Len(rows) THEN [raised |-> "none", result |-> result, calls |-> called]
    ELSE IF m = None
    THEN [raised |-> "AttributeError", result |-> result, calls |-> called]
    ELSE LET x == reshape_1(rows[i])
             pred == predict(m, x)
         IN  IF pred.raised # "none"
             THEN [raised |-> pred.raised, result |-> result, calls |-> Append(called, x)]
             ELSE score_rows(m, rows, i + 1,
                             IF result = None THEN np_array(pred.value)
                                              ELSE vstack(result, pred.value),
                             Append(called, x))

\* the return statement without the `result is None` test:
\* pd.DataFrame(None, columns=["score"]) is a frame without rows
scored_without_none_test(batch, result) ==
    IF result = None
    THEN join(batch, DataFrame(<<"score">>, << >>))
    ELSE join(batch, score_frame(result))

\* [] if result is None else mini_batch.join(pd.DataFrame(result, columns=["score"]))
scored(batch, result) ==
    IF result = None
    THEN PyList(<< >>)
    ELSE join(batch, score_frame(result))

\* run returning the rows scored so far from the except clause
run_returning_partial(m, batch) ==
    LET loop == score_rows(m, batch.rows, 1, None, << >>)
    IN  [model |-> m, mini_batch |-> batch,
         ret |-> Return(scored(batch, loop.result)),
         calls |-> loop.calls,
         out |-> IF loop.raised # "none" THEN << <<loop.raised>> >> ELSE << >>]

\* run with `global model; model = None` in the except clause
run_dropping_model(m, batch) ==
    LET loop == score_rows(m, batch.rows, 1, None, << >>)
    IN  IF loop.raised # "none"
        THEN [model |-> None, mini_batch |-> batch, ret |-> Return(None),
              calls |-> loop.calls, out |-> << <<loop.raised>> >>]
        ELSE [model |-> m, mini_batch |-> batch,
              ret |-> Return(scored(batch, loop.result)),
              calls |-> loop.calls, out |-> << >>]

\* run without the try statement: the exception of the loop escapes
run_without_except(m, batch) ==
    LET loop == score_rows(m, batch.rows, 1, None, << >>)
    IN  IF loop.raised # "none"
        THEN [model |-> m, mini_batch |-> batch, ret |-> Raise(loop.raised),
              calls |-> loop.calls, out |-> << >>]
        ELSE [model |-> m, mini_batch |-> batch,
              ret |-> Return(scored(batch, loop.result)),
              calls |-> loop.calls, out |-> << >>]

\* run(mini_batch) with model = m: the new value of model, the DataFrame
\* object after the call, the outcome of the call, the predict calls made and
\* the lines printed.  run has no global statement and calls no mutating
\* method of mini_batch.  The except clause prints the exception and falls
\* off the end of the function, which returns None.
run(m, batch) ==
    LET loop == score_rows(m, batch.rows, 1, None, << >>)
    IN  IF loop.raised # "none"
        THEN [model |-> m, mini_batch |-> batch, ret |-> Return(None),
              calls |-> loop.calls, out |-> << <<loop.raised>> >>]
        ELSE [model |-> m, mini_batch |-> batch,
              ret |-> Return(scored(batch, loop.result)),
              calls |-> loop.calls, out |-> << >>]

----------------------------------------------------------------------------
(* The worker process: the harness calls the hooks *)

\* feature rows of the scoring data
Rows == {<<1, 2>>, <<3, 4>>, <<0, 5>>}

Columns == <<"f1", "f2">>

\* mini batches as the harness builds them from the tabular dataset: the
\* feature columns, up to MaxRows rows, the default index
Batches == {DataFrame(Columns, rows) : rows \in SeqsUpTo(Rows, MaxRows)}

NoCall == [hook |-> "start", raised |-> "none", value |-> None]

Outcome(hook, r) == [hook |-> hook, raised |-> r.raised, value |-> r.value]

Init ==
    /\ argv \in ArgvSet(HookTokens, MaxHookArgs)
    /\ model = None
    /\ passed = None
    /\ mini_batch = None
    /\ ret = NoCall
    /\ calls = << >>
    /\ get_model_calls = << >>
    /\ collab = None
    /\ out = << >>

\* the harness calls init()
InitHook ==
    \E e \in Envs :
        LET r == init(argv, model, e)
        IN  /\ model' = r.model
            /\ collab' = e
            /\ ret' = Outcome("init", r.ret)
            /\ get_model_calls' = r.get_model_calls
            /\ out' = r.out
            /\ calls' = << >>
            /\ passed' = None
            /\ mini_batch' = None
            /\ UNCHANGED argv

\* the harness calls run(mini_batch)
RunHook ==
    \E batch \in Batches :
        LET r == run(model, batch)
        IN  /\ model' = r.model
            /\ passed' = batch
            /\ mini_batch' = r.mini_batch
            /\ ret' = Outcome("run", r.ret)
            /\ calls' = r.calls
            /\ out' = r.out
            /\ get_model_calls' = << >>
            /\ collab' = None
            /\ UNCHANGED argv

Next == InitHook \/ RunHook

Spec == Init /\ [][Next]_vars

----------------------------------------------------------------------------
(* parse_args on its own, over every argument vector up to MaxArgs tokens *)

InitParse ==
    /\ argv \in ArgvSet(Tokens, MaxArgs)
    /\ model = None
    /\ passed = None
    /\ mini_batch = None
    /\ ret = NoCall
    /\ calls = << >>
    /\ get_model_calls = << >>
    /\ collab = None
    /\ out = << >>

ParseArgs ==
    /\ ret.hook = "start"
    /\ ret' = Outcome("parse_args", parse_args(argv))
    /\ UNCHANGED <<argv, model, passed, mini_batch, calls, get_model_calls, collab, out>>

NextParse == ParseArgs

SpecParse == InitParse /\ [][NextParse]_vars

----------------------------------------------------------------------------
(* Properties of parse_args (checked under SpecParse) *)

Parsed == ret.hook = "parse_args"

\* every occurrence of a recognized flag is followed by a token
FlagsHaveValues(av) == av[Len(av)] \notin Flags

Min(S) == CHOOSE x \in S : \A y \in S : x <= y

\* the token immediately following the first occurrence of flag
FirstValue(av, flag) == av[Min(Occurrences(av, flag)) + 1]

IsBlank(s) == \A i \in 1..Len(s) : s[i] \in Whitespace

\* position of each flag's field in the returned filter
FieldOf(flag) ==
    CASE flag = FLAG_NAME -> 1
      [] flag = FLAG_VERSION -> 2
      [] flag = FLAG_TAG_NAME -> 3
      [] flag = FLAG_TAG_VALUE -> 4

\* C1: whenever the argument vector does not contain --model_name, parse_args
\* raises ValueError and returns no filter.
C1_MissingNameRaises ==
    (Parsed /\ ~HasFlag(argv, FLAG_NAME))
        => (ret.raised = "ValueError" /\ ret.value = None)

\* a vector without --model_name, containing other flags, one of them as the
\* last token, has been parsed and ValueError was raised
C1_Witness ==
    /\ Parsed
    /\ ~HasFlag(argv, FLAG_NAME)
    /\ HasFlag(argv, FLAG_TAG_VALUE)
    /\ argv[Len(argv)] = FLAG_VERSION
    /\ ret.raised = "ValueError"

\* C2: when --model_name (each occurrence followed by a token) is the only
\* recognized flag of the vector and X follows its first occurrence,
\* parse_args returns [X, None, None, None] with X unchanged.
C2_NameOnlyFilter ==
    (/\ Parsed
     /\ HasFlag(argv, FLAG_NAME)
     /\ \A f \in OptionalFlags : ~HasFlag(argv, f)
     /\ FlagsHaveValues(argv))
        => (/\ ret.raised = "none"
            /\ ret.value.py = "list"
            /\ ret.value.items = <<PyStr(FirstValue(argv, FLAG_NAME)), None, None, None>>)

\* --model_name with a whitespace-padded value and further unrecognized
\* tokens has been parsed into [X, None, None, None]
C2_Witness ==
    /\ Parsed
    /\ \A f \in OptionalFlags : ~HasFlag(argv, f)
    /\ Len(argv) >= 4
    /\ argv[3] = FLAG_NAME
    /\ argv[4] = <<"\t", "m", " ">>
    /\ ret.raised = "none"
    /\ ret.value.items = <<PyStr(<<"\t", "m", " ">>), None, None, None>>

\* C3: in every vector containing --model_name (every flag followed by a
\* token), each optional flag that is absent, or whose value is empty or
\* whitespace-only, has None as its field of the returned filter.
C3_BlankOptionalIsNone ==
    (Parsed /\ HasFlag(argv, FLAG_NAME) /\ FlagsHaveValues(argv))
        => \A f \in OptionalFlags :
              (~HasFlag(argv, f) \/ IsBlank(FirstValue(argv, f)))
                  => (/\ ret.raised = "none"
                      /\ ret.value.items[FieldOf(f)] = None)

\* C4: when --model_tag_name has an empty or whitespace-only value and
\* --model_tag_value a non-blank value (with --model_name present and every
\* flag followed by a token), parse_args returns tag_name = None and
\* tag_value = None.
C4_BlankTagNameSuppressesTagValue ==
    (/\ Parsed
     /\ HasFlag(argv, FLAG_NAME)
     /\ FlagsHaveValues(argv)
     /\ HasFlag(argv, FLAG_TAG_NAME)
     /\ IsBlank(FirstValue(argv, FLAG_TAG_NAME))
     /\ HasFlag(argv, FLAG_TAG_VALUE)
     /\ ~IsBlank(FirstValue(argv, FLAG_TAG_VALUE)))
        => (/\ ret.raised = "none"
            /\ ret.value.items[3] = None
            /\ ret.value.items[4] = None)

\* --model_name X --model_tag_name "" --model_tag_value V with V non-blank
\* has been parsed and the filter holds no tag value
C4_Witness ==
    /\ Parsed
    /\ HasFlag(argv, FLAG_NAME)
    /\ FlagsHaveValues(argv)
    /\ HasFlag(argv, FLAG_TAG_NAME)
    /\ FirstValue(argv, FLAG_TAG_NAME) = << >>
    /\ HasFlag(argv, FLAG_TAG_VALUE)
    /\ FirstValue(argv, FLAG_TAG_VALUE) = <<"\t", "m", " ">>
    /\ ret.raised = "none"
    /\ ret.value.items[4] = None

----------------------------------------------------------------------------
(* Properties of the hooks (checked under Spec) *)

\* the try block of init fails: parse_args, get_model, Model.get_model_path
\* or joblib.load raises
InitFailure(av, e) ==
    \/ parse_args(av).raised # "none"
    \/ e.get_model # "found"
    \/ e.get_model_path # "path"
    \/ e.load.raised # "none"

\* C5: every init call returns normally; when the argument resolver, the
\* registry lookup, the path lookup or deserialization fails, the failure is
\* printed and model keeps the value it had before the call (None when the
\* call was the first).
C5_InitNeverRaises ==
    [][ret'.hook = "init"
          => /\ ret'.raised = "none"
             /\ InitFailure(argv', collab')
                   => (model' = model /\ out'[Len(out')][1] = "Error")]_vars

\* a first init call whose joblib.load raised has returned normally, printed
\* the error and left model None
C5_Witness ==
    /\ ret.hook = "init"
    /\ parse_args(argv).raised = "none"
    /\ collab.get_model = "found"
    /\ collab.get_model_path = "path"
    /\ collab.load.raised = "UnpicklingError"
    /\ ret.raised = "none"
    /\ model = None
    /\ out[2] = <<"Error", "UnpicklingError">>

\* C6 as stated: when the vector lacks --model_name, the ValueError of
\* parse_args escapes init.
C6_ConfigErrorPropagates ==
    (ret.hook = "init" /\ ~HasFlag(argv, FLAG_NAME)) => ret.raised = "ValueError"

\* C6 as amended: when the vector lacks --model_name, init makes no registry
\* lookup, prints the ValueError, leaves model as it was and returns
\* normally.
C6_ConfigErrorSwallowed ==
    [][(ret'.hook = "init" /\ ~HasFlag(argv', FLAG_NAME))
          => /\ ret'.raised = "none"
             /\ ret'.value = None
             /\ get_model_calls' = << >>
             /\ out' = << <<"Initializing batch scoring script...">>,
                          <<"Error", "ValueError">> >>
             /\ model' = model]_vars

\* init has been called under a vector without --model_name and returned
\* normally after printing the ValueError
C6_Witness ==
    /\ ret.hook = "init"
    /\ ~HasFlag(argv, FLAG_NAME)
    /\ HasFlag(argv, FLAG_VERSION)
    /\ ret.raised = "none"
    /\ out[Len(out)] = <<"Error", "ValueError">>
    /\ model = None

\* predict of m raises on none of the rows
NeverRaises(m, rows) ==
    \A i \in 1..Len(rows) : predict(m, <<rows[i]>>).raised = "none"

\* the rows on which predict of m raises
RaisingRows(m, rows) ==
    {i \in 1..Len(rows) : predict(m, <<rows[i]>>).raised # "none"}

\* C7: with a loaded model whose predict raises on no row of the batch, run
\* on n >= 1 rows returns a table with the n input rows in order, the input
\* columns unchanged, and a trailing column score holding on row i the
\* prediction for row i; predict is called once per row, in row order, on the
\* row as a 1-by-N matrix.
C7_ScoredBatch ==
    (/\ ret.hook = "run"
     /\ model # None
     /\ Len(passed.rows) >= 1
     /\ NeverRaises(model, passed.rows))
        => (/\ ret.raised = "none"
            /\ ret.value.py = "DataFrame"
            /\ ret.value.columns = passed.columns \o <<"score">>
            /\ Len(ret.value.rows) = Len(passed.rows)
            /\ \A i \in 1..Len(passed.rows) :
                  ret.value.rows[i] =
                      passed.rows[i] \o predict(model, <<passed.rows[i]>>).value
            /\ calls = [i \in 1..Len(passed.rows) |-> <<passed.rows[i]>>])

\* predict = sum over [{f1:1,f2:2},{f1:3,f2:4}] has given the scores 3 and 7
C7_Witness ==
    /\ ret.hook = "run"
    /\ model = Predictor("sum")
    /\ passed.rows = << <<1, 2>>, <<3, 4>> >>
    /\ ret.value.py = "DataFrame"
    /\ ret.value.columns = <<"f1", "f2", "score">>
    /\ ret.value.rows = << <<1, 2, 3>>, <<3, 4, 7>> >>

\* C8: run on a batch without rows returns the empty list, raises nothing,
\* prints nothing and calls predict not at all, with or without a model.
C8_EmptyBatch ==
    (ret.hook = "run" /\ Len(passed.rows) = 0)
        => (/\ ret.raised = "none"
            /\ ret.value.py = "list"
            /\ ret.value.items = << >>
            /\ calls = << >>
            /\ out = << >>)

\* run has returned [] for an empty batch while no model was loaded
C8_Witness ==
    /\ ret.hook = "run"
    /\ Len(passed.rows) = 0
    /\ model = None
    /\ ret.value = PyList(<< >>)

\* C9: when predict raises on row k (and on no earlier row), run has called
\* predict on rows 1..k only, prints the error, returns None (no table, not
\* even of the rows before k) and raises nothing.
C9_AbortOnPredictionError ==
    (/\ ret.hook = "run"
     /\ model # None
     /\ RaisingRows(model, passed.rows) # {})
        => LET k == Min(RaisingRows(model, passed.rows))
           IN  /\ ret.raised = "none"
               /\ ret.value = None
               /\ calls = [i \in 1..k |-> <<passed.rows[i]>>]
               /\ out = << <<predict(model, <<passed.rows[k]>>).raised>> >>

\* predict has raised on the second of three rows: two predict calls were
\* made and run returned None
C9_Witness ==
    /\ ret.hook = "run"
    /\ model = Predictor("ratio")
    /\ passed.rows = << <<1, 2>>, <<0, 5>>, <<3, 4>> >>
    /\ Len(calls) = 2
    /\ ret.raised = "none"
    /\ ret.value = None

\* C10: model changes only in an init call whose try block ran to the end,
\* and then to the object joblib.load returned; a run call leaves model and
\* the batch it was handed as they were.
C10_ModelWrittenOnlyByInit ==
    [][/\ model' # model
          => (/\ ret'.hook = "init"
              /\ ~InitFailure(argv', collab')
              /\ model' = collab'.load.value)
       /\ ret'.hook = "run"
          => (model' = model /\ mini_batch' = passed')]_vars

\* after a successful init a run call has aborted on a prediction error and
\* the loaded model and the batch are still as they were
C10_Witness ==
    /\ ret.hook = "run"
    /\ model = Predictor("ratio")
    /\ Len(passed.rows) >= 2
    /\ ret.value = None
    /\ out # << >>
    /\ mini_batch = passed

\* C11: while no init call has succeeded (model is assigned only by a
\* successful init, so model is still None), every run call returns without
\* raising and without calling predict; on a batch with rows the
\* AttributeError of model.predict is printed and run returns None, and run
\* never returns a table.
C11_NoModelNoScores ==
    (ret.hook = "run" /\ model = None)
        => (/\ ret.raised = "none"
            /\ calls = << >>
            /\ ret.value.py # "DataFrame"
            /\ Len(passed.rows) >= 1
                  => (ret.value = None /\ out = << <<"AttributeError">> >>))

\* under an argument vector without --model_name, with which no init can
\* succeed, run has been handed rows and returned None after printing the
\* error
C11_Witness ==
    /\ ret.hook = "run"
    /\ ~HasFlag(argv, FLAG_NAME)
    /\ model = None
    /\ Len(passed.rows) >= 2
    /\ ret.raised = "none"
    /\ ret.value = None
    /\ out = << <<"AttributeError">> >>

----------------------------------------------------------------------------
(* Repeated and trailing flags (checked under SpecParse) *)

\* the first occurrence of every flag that occurs is followed by a token
FirstOccurrencesHaveValues(av) ==
    \A f \in Flags : HasFlag(av, f) => Min(Occurrences(av, f)) < Len(av)

\* C12: in a vector containing --model_name in which the first occurrence of
\* every flag is followed by a token (and --model_tag_value comes with
\* --model_tag_name), parse_args does not fail, whatever later occurrences
\* there are, and each occurring flag's field is the token after its first
\* occurrence (or None for an optional flag).
C12_FirstOccurrenceDecides ==
    (/\ Parsed
     /\ HasFlag(argv, FLAG_NAME)
     /\ FirstOccurrencesHaveValues(argv)
     /\ HasFlag(argv, FLAG_TAG_VALUE) => HasFlag(argv, FLAG_TAG_NAME))
        => (/\ ret.raised = "none"
            /\ \A f \in Flags :
                  HasFlag(argv, f)
                      => \/ ret.value.items[FieldOf(f)] = PyStr(FirstValue(argv, f))
                         \/ (f \in OptionalFlags /\ ret.value.items[FieldOf(f)] = None))

====
